---- MODULE Spec2Model ----
(***************************************************************************)
(* A model of draft_analysis.py: the two table normalizers                 *)
(* (fetch_draft_data, fetch_season_stats), the inner merge on Player_Clean,*)
(* the minutes/search filter and the tab-1 aggregations.                   *)
(*                                                                         *)
(* Strings are sequences of one-character strings.  Numbers are held in    *)
(* hundredths.  A missing cell (NaN) is the empty sequence.                *)
(***************************************************************************)
EXTENDS Integers, Sequences, FiniteSets

VARIABLES
    pc,            \* position of the script (or of the name clean-up)
    raw_draft,     \* tables[0] inside fetch_draft_data (a local of the call)
    draft_df,      \* fetch_draft_data()'s return value
    raw_season,    \* tables[0] inside fetch_season_stats (a local of the call)
    season_df,     \* fetch_season_stats()'s return value
    merged_df,     \* draft_df.merge(season_df, ...)
    messages,      \* what st.error / st.warning / st.info have shown, in order
    search_term,   \* sidebar text input
    metric,        \* sidebar select box
    min_minutes,   \* sidebar slider
    filtered_df,   \* the filtered frame of tab 1
    correlation,   \* the local 'correlation' of tab 1
    top_picks,     \* the local 'top_picks' of tab 1
    late_picks,    \* the local 'late_picks' of tab 1
    name,          \* a raw Player cell given to the name clean-up
    player,        \* df['Player'] for that cell
    player_clean,  \* df['Player_Clean'] for that cell
    reclean        \* the clean-up applied once more to player_clean

vars == <<pc, raw_draft, draft_df, raw_season, season_df, merged_df, messages,
          search_term, metric, min_minutes, filtered_df, correlation,
          top_picks, late_picks, name, player, player_clean, reclean>>

(***************************************************************************)
(* Bounds of the model.                                                    *)
(***************************************************************************)
MaxPieces == 5
MaxDraftRows == 2
MaxSeasonRows == 2
MaxAggRows == 6

(***************************************************************************)
(* Values.                                                                 *)
(***************************************************************************)
\* a missing cell; a present number n (in hundredths) is <<n>>, a present text
\* is its non-empty sequence of characters
NaN == <<>>

\* a frame variable before its assignment, the value None, and a DataFrame
NoFrame == [state |-> "unset", rows |-> <<>>]
NoneFrame == [state |-> "None", rows |-> <<>>]
Frame(rows) == [state |-> "frame", rows |-> rows]

\* a raw table before the request, and after a request that raised
NoTable == [state |-> "unset", cols |-> <<>>, rows |-> <<>>]
FailedTable(why) == [state |-> why, cols |-> <<>>, rows |-> <<>>]
Table(cols, rows) == [state |-> "table", cols |-> cols, rows |-> rows]

\* the local 'correlation': unassigned, NaN, or the Pearson coefficient
\* cov / sqrt(vx * vy) kept as its three integer parts
NoCorr == [state |-> "unset", cov |-> 0, vx |-> 0, vy |-> 0]
NaNCorr == [state |-> "nan", cov |-> 0, vx |-> 0, vy |-> 0]
CorrValue(cov, vx, vy) == [state |-> "value", cov |-> cov, vx |-> vx, vy |-> vy]

\* the script's own variables before the script has run
PipelineUntouched ==
    /\ raw_draft = NoTable /\ draft_df = NoFrame
    /\ raw_season = NoTable /\ season_df = NoFrame
    /\ merged_df = NoFrame /\ messages = <<>>
    /\ search_term = <<>> /\ metric = "" /\ min_minutes = 0
    /\ filtered_df = NoFrame /\ correlation = NoCorr
    /\ top_picks = <<>> /\ late_picks = <<>>

\* the name clean-up's variables when the script itself runs
NameUntouched ==
    name = <<>> /\ player = <<>> /\ player_clean = <<>> /\ reclean = <<>>

nameVars == <<name, player, player_clean, reclean>>

(***************************************************************************)
(* Character strings.                                                      *)
(***************************************************************************)
\* the whitespace of str.strip() and of \s that the cells of this model hold
Whitespace == {" ", "\t"}

Min(S) == CHOOSE x \in S : \A y \in S : x <= y

RECURSIVE LStrip(_)
LStrip(s) ==
    IF s # <<>> /\ Head(s) \in Whitespace THEN LStrip(Tail(s)) ELSE s

RECURSIVE RStrip(_)
RStrip(s) ==
    IF s # <<>> /\ s[Len(s)] \in Whitespace
    THEN RStrip(SubSeq(s, 1, Len(s) - 1))
    ELSE s

\* str.strip()
Strip(s) == RStrip(LStrip(s))

\* the alternatives of the group (Jr\.|Sr\.|III|II|IV)
SuffixTokens ==
    { <<"J", "r", ".">>, <<"S", "r", ".">>, <<"I", "I", "I">>,
      <<"I", "I">>, <<"I", "V">> }

\* r'\s+(Jr\.|Sr\.|III|II|IV)\.?$' matches s from position i to its end
SuffixMatchAt(s, i) ==
    \E tok \in SuffixTokens, k \in 1..Len(s), d \in {0, 1} :
        /\ i + k + Len(tok) + d - 1 = Len(s)
        /\ \A j \in i..(i + k - 1) : s[j] \in Whitespace
        /\ SubSeq(s, i + k, i + k + Len(tok) - 1) = tok
        /\ (d = 1 => s[Len(s)] = ".")

\* .str.replace(r'\s+(Jr\.|Sr\.|III|II|IV)\.?$', '', regex=True): the leftmost
\* match is removed; the pattern is anchored at the end, so there is at most one
ReplaceSuffix(s) ==
    LET at == {i \in 1..Len(s) : SuffixMatchAt(s, i)}
    IN  IF at = {} THEN s ELSE SubSeq(s, 1, Min(at) - 1)

\* df['Player'].str.replace(...).str.strip()
PlayerClean(p) == Strip(ReplaceSuffix(p))

(***************************************************************************)
(* Numbers.  Every number is held in hundredths: the pick 25 is 2500, 20.0 *)
(* points are 2000, the weight 1.5 is 150, the score 46.10 is 4610.        *)
(***************************************************************************)
Num(n) == <<n * 100>>

Digits == {"0", "1", "2", "3", "4", "5", "6", "7", "8", "9"}

DigitVal(c) ==
    CASE c = "0" -> 0 [] c = "1" -> 1 [] c = "2" -> 2 [] c = "3" -> 3
      [] c = "4" -> 4 [] c = "5" -> 5 [] c = "6" -> 6 [] c = "7" -> 7
      [] c = "8" -> 8 [] c = "9" -> 9

IsDigits(s) == s # <<>> /\ \A i \in 1..Len(s) : s[i] \in Digits

RECURSIVE IntOf(_)
IntOf(s) ==
    IF s = <<>> THEN 0
    ELSE 10 * IntOf(SubSeq(s, 1, Len(s) - 1)) + DigitVal(s[Len(s)])

\* pd.to_numeric(cell, errors='coerce') on one cell: a decimal numeral with at
\* most two decimals becomes its number, anything else becomes NaN
ToNumeric(cell) ==
    LET dots == {i \in 1..Len(cell) : cell[i] = "."}
    IN  IF dots = {}
        THEN IF IsDigits(cell) THEN <<IntOf(cell) * 100>> ELSE NaN
        ELSE LET d == Min(dots)
                 ip == SubSeq(cell, 1, d - 1)
                 fp == SubSeq(cell, d + 1, Len(cell))
             IN  IF IsDigits(ip) /\ IsDigits(fp) /\ Len(fp) <= 2
                 THEN <<IntOf(ip) * 100
                        + (IF Len(fp) = 1 THEN 10 * IntOf(fp) ELSE IntOf(fp))>>
                 ELSE NaN

\* Series.astype(str) on one cell: a missing cell becomes the text 'nan'
AsStr(cell) == IF cell = NaN THEN <<"n", "a", "n">> ELSE cell

(***************************************************************************)
(* Messages shown by st.error / st.warning / st.info.                      *)
(***************************************************************************)
Msg(kind, text, cause) == [kind |-> kind, text |-> text, cause |-> cause]

(***************************************************************************)
(* fetch_draft_data.  A response is the table tables[0] (its header already*)
(* collapsed to one level), or the exception that the request or read_html *)
(* raised.                                                                 *)
(***************************************************************************)
HasCol(cols, c) == \E i \in 1..Len(cols) : cols[i] = c

\* 'Pk' if 'Pk' in df.columns else df.columns[0]: the position of the column
\* taken (0 when df.columns[pos - 1] raises IndexError)
ColPos(cols, c, pos) ==
    IF HasCol(cols, c) THEN Min({i \in 1..Len(cols) : cols[i] = c})
    ELSE IF pos <= Len(cols) THEN pos ELSE 0

\* lines 34-39 on the rows of df[[pk_col, player_col, tm_col]]
DraftRows(rows, pk, pl, tm) ==
    LET picked == [i \in 1..Len(rows) |->
                     [Pk |-> rows[i][pk], Player |-> rows[i][pl],
                      Tm |-> rows[i][tm]]]
        present == SelectSeq(picked, LAMBDA r : r.Pk # NaN)
        typed == [i \in 1..Len(present) |->
                    [Pk |-> ToNumeric(present[i].Pk),
                     Player |-> Strip(AsStr(present[i].Player)),
                     Player_Clean |->
                         PlayerClean(Strip(AsStr(present[i].Player))),
                     Tm |-> present[i].Tm]]
    IN  SelectSeq(typed, LAMBDA r : r.Pk # NaN)

\* the body of fetch_draft_data: the frame returned and the messages shown
FetchDraftData(resp) ==
    IF resp.state # "table"
    THEN [df |-> NoneFrame,
          msgs |-> <<Msg("error", "Error fetching draft data", resp.state)>>]
    ELSE LET pk == ColPos(resp.cols, "Pk", 1)
             pl == ColPos(resp.cols, "Player", 2)
             tm == ColPos(resp.cols, "Tm", 3)
         IN  IF pk = 0 \/ pl = 0 \/ tm = 0
             THEN [df |-> NoneFrame,
                   msgs |-> <<Msg("error", "Error fetching draft data",
                                  "IndexError")>>]
             ELSE [df |-> Frame(DraftRows(resp.rows, pk, pl, tm)),
                   msgs |-> <<>>]

\* line 82: draft_df = fetch_draft_data()
FetchDraft(Responses) ==
    /\ pc = "start"
    /\ \E resp \in Responses :
        /\ raw_draft' = resp
        /\ draft_df' = FetchDraftData(resp).df
        /\ messages' = messages \o FetchDraftData(resp).msgs
    /\ pc' = "draft_fetched"
    /\ UNCHANGED <<raw_season, season_df, merged_df, search_term, metric,
                   min_minutes, filtered_df, correlation, top_picks,
                   late_picks, nameVars>>

(***************************************************************************)
(* fetch_season_stats.                                                     *)
(***************************************************************************)
SeasonCols ==
    <<"Player", "PTS", "FG%", "3P%", "TRB", "AST", "STL", "BLK", "MP">>

\* the cell of a row under the column named c
Cell(cols, row, c) == row[Min({i \in 1..Len(cols) : cols[i] = c})]

\* the weights of lines 69-73
W_PTS == 100
W_AST == 150
W_TRB == 120
W_STL == 300
W_BLK == 300

\* .round(2) of a non-negative value given in ten-thousandths: the nearest
\* hundredth, a half going to the even neighbour
Round2(x) ==
    LET q == x \div 100
        r == x % 100
    IN  IF r < 50 THEN q
        ELSE IF r > 50 THEN q + 1
        ELSE IF q % 2 = 0 THEN q ELSE q + 1

\* lines 68-74: NaN in any operand makes the float sum NaN
CompositeScore(pts, ast, trb, stl, blk) ==
    IF NaN \in {pts, ast, trb, stl, blk}
    THEN NaN
    ELSE <<Round2(pts[1] * W_PTS + ast[1] * W_AST + trb[1] * W_TRB
                  + stl[1] * W_STL + blk[1] * W_BLK)>>

\* lines 59-76 on the rows of a table that has every column
SeasonRows(cols, rows) ==
    LET named == SelectSeq(rows, LAMBDA r : Cell(cols, r, "Player") # NaN)
        typed == [i \in 1..Len(named) |->
            LET r == named[i]
                p == Strip(AsStr(Cell(cols, r, "Player")))
                n(c) == ToNumeric(Cell(cols, r, c))
            IN  [Player |-> p,
                 Player_Clean |-> PlayerClean(p),
                 PTS |-> n("PTS"), FG_pct |-> n("FG%"), P3_pct |-> n("3P%"),
                 TRB |-> n("TRB"), AST |-> n("AST"), STL |-> n("STL"),
                 BLK |-> n("BLK"), MP |-> n("MP"),
                 Composite_Score |->
                     CompositeScore(n("PTS"), n("AST"), n("TRB"), n("STL"),
                                    n("BLK"))]]
    IN  SelectSeq(typed, LAMBDA r : r.PTS # NaN)

\* the body of fetch_season_stats: df['Player'], the operands of the score and
\* the columns of the returned selection raise KeyError when absent
FetchSeasonStats(resp) ==
    IF resp.state # "table"
    THEN [df |-> NoneFrame,
          msgs |-> <<Msg("error", "Error fetching season stats", resp.state)>>]
    ELSE IF \E i \in 1..Len(SeasonCols) : ~HasCol(resp.cols, SeasonCols[i])
    THEN [df |-> NoneFrame,
          msgs |-> <<Msg("error", "Error fetching season stats", "KeyError")>>]
    ELSE [df |-> Frame(SeasonRows(resp.cols, resp.rows)), msgs |-> <<>>]

\* line 83: season_df = fetch_season_stats(); it runs whatever line 82 returned
FetchSeason(Responses) ==
    /\ pc = "draft_fetched"
    /\ \E resp \in Responses :
        /\ raw_season' = resp
        /\ season_df' = FetchSeasonStats(resp).df
        /\ messages' = messages \o FetchSeasonStats(resp).msgs
    /\ raw_draft' = NoTable
    /\ pc' = "season_fetched"
    /\ UNCHANGED <<draft_df, merged_df, search_term, metric, min_minutes,
                   filtered_df, correlation, top_picks, late_picks, nameVars>>

(***************************************************************************)
(* Lines 85-92 and 359-362: the merge.                                     *)
(***************************************************************************)
NA == <<"N", "/", "A">>

\* one row of the merge: the draft row's columns, the season row's columns,
\* Player from the draft side, Tm with its missing values filled
MergedRow(d, s) ==
    [Player |-> d.Player, Player_draft |-> d.Player, Player_stats |-> s.Player,
     Player_Clean |-> d.Player_Clean, Pk |-> d.Pk,
     Drafted_Team |-> d.Tm, Tm |-> IF d.Tm = NaN THEN NA ELSE d.Tm,
     PTS |-> s.PTS, FG_pct |-> s.FG_pct, P3_pct |-> s.P3_pct, TRB |-> s.TRB,
     AST |-> s.AST, STL |-> s.STL, BLK |-> s.BLK, MP |-> s.MP,
     Composite_Score |-> s.Composite_Score]

\* the merge as how='left' would make it: an unmatched draft row is kept, its
\* season columns missing
RECURSIVE MergeLeft(_, _)
MergeLeft(D, S) ==
    IF D = <<>> THEN <<>>
    ELSE LET d == Head(D)
             hits == SelectSeq(S, LAMBDA s : s.Player_Clean = d.Player_Clean)
             none == [Player |-> NaN, PTS |-> NaN, FG_pct |-> NaN,
                      P3_pct |-> NaN, TRB |-> NaN, AST |-> NaN, STL |-> NaN,
                      BLK |-> NaN, MP |-> NaN, Composite_Score |-> NaN]
         IN  (IF hits = <<>> THEN <<MergedRow(d, none)>>
              ELSE [i \in 1..Len(hits) |-> MergedRow(d, hits[i])])
             \o MergeLeft(Tail(D), S)

\* draft_df.merge(season_df, on Player_Clean, how='inner'): for each draft row
\* in order, one row per season row with the same key, in season order
RECURSIVE Merge(_, _)
Merge(D, S) ==
    IF D = <<>> THEN <<>>
    ELSE LET d == Head(D)
             hits == SelectSeq(S, LAMBDA s : s.Player_Clean = d.Player_Clean)
         IN  [i \in 1..Len(hits) |-> MergedRow(d, hits[i])] \o Merge(Tail(D), S)

MergeStep ==
    /\ pc = "season_fetched"
    /\ raw_season' = NoTable
    /\ IF draft_df.state = "frame" /\ season_df.state = "frame"
       THEN LET m == Merge(draft_df.rows, season_df.rows)
            IN  /\ merged_df' = Frame(m)
                /\ IF Len(m) > 0
                   THEN pc' = "merged" /\ UNCHANGED messages
                   ELSE /\ pc' = "done"
                        /\ messages' = Append(messages,
                               Msg("error", "No matching data found", "empty"))
       ELSE /\ pc' = "done"
            /\ messages' = Append(messages,
                   Msg("error", "Unable to load data", "None"))
            /\ UNCHANGED merged_df
    /\ UNCHANGED <<raw_draft, draft_df, season_df, search_term, metric,
                   min_minutes, filtered_df, correlation, top_picks,
                   late_picks, nameVars>>

(***************************************************************************)
(* Tab 1, lines 96-124: the sidebar inputs and the filter.                 *)
(***************************************************************************)
UpperChars ==
    <<"A", "B", "C", "D", "E", "F", "G", "H", "I", "J", "K", "L", "M",
      "N", "O", "P", "Q", "R", "S", "T", "U", "V", "W", "X", "Y", "Z">>

LowerChars ==
    <<"a", "b", "c", "d", "e", "f", "g", "h", "i", "j", "k", "l", "m",
      "n", "o", "p", "q", "r", "s", "t", "u", "v", "w", "x", "y", "z">>

\* str.lower()
Lower(s) ==
    [i \in 1..Len(s) |->
        IF \E k \in 1..26 : UpperChars[k] = s[i]
        THEN LowerChars[CHOOSE k \in 1..26 : UpperChars[k] = s[i]]
        ELSE s[i]]

\* str.contains(needle, regex=False)
Contains(hay, needle) ==
    \E i \in 0..(Len(hay) - Len(needle)) :
        SubSeq(hay, i + 1, i + Len(needle)) = needle

\* the select box's options
Metrics ==
    {"Composite Score", "PTS", "AST", "TRB", "STL", "BLK", "FG%", "3P%"}

\* row[metric]
MetricOf(r, m) ==
    CASE m = "Composite Score" -> r.Composite_Score
      [] m = "PTS" -> r.PTS
      [] m = "AST" -> r.AST
      [] m = "TRB" -> r.TRB
      [] m = "STL" -> r.STL
      [] m = "BLK" -> r.BLK
      [] m = "FG%" -> r.FG_pct
      [] m = "3P%" -> r.P3_pct

\* the slider's default value and step (lines 110-111)
SliderDefault == 15
SliderStep == 5

Max(S) == CHOOSE x \in S : \A y \in S : x >= y

\* lines 106-112: what the slider gives.  int(NaN) raises when no row has MP;
\* a maximum below the default either raises (the older widget) or is widened
\* to the default (the newer one); otherwise the user picks a step value
SliderOutcomes(rows) ==
    LET mps == {rows[i].MP[1] : i \in {j \in 1..Len(rows) : rows[j].MP # NaN}}
        top == Max(mps) \div 100
        hi == IF top < SliderDefault THEN SliderDefault ELSE top
    IN  IF mps = {}
        THEN {[raised |-> "ValueError", value |-> 0]}
        ELSE {[raised |-> "", value |-> v] :
                  v \in {w \in 0..hi : w % SliderStep = 0}}
             \cup (IF top < SliderDefault
                   THEN {[raised |-> "StreamlitAPIException", value |-> 0]}
                   ELSE {})

\* the minutes filter with a strict comparison
MinutesFilterStrict(rows, mm) ==
    SelectSeq(rows, LAMBDA r : r.MP # NaN /\ r.MP[1] > mm * 100)

\* line 114: merged_df[merged_df['MP'] >= min_minutes]
MinutesFilter(rows, mm) ==
    SelectSeq(rows, LAMBDA r : r.MP # NaN /\ r.MP[1] >= mm * 100)

\* lines 117-120
SearchFilter(rows, term) ==
    SelectSeq(rows, LAMBDA r : Contains(Lower(r.Player), Strip(Lower(term))))

\* lines 114-120: the filtered frame
FilterRows(rows, mm, term) ==
    IF term # <<>>
    THEN SearchFilter(MinutesFilter(rows, mm), term)
    ELSE MinutesFilter(rows, mm)

\* lines 121-124
SearchMessages(rows, term) ==
    IF term = <<>> THEN <<>>
    ELSE IF Len(rows) = 0
    THEN <<Msg("warning", "No players found matching", "empty")>>
    ELSE <<Msg("info", "Found player(s) matching", "found")>>

FilterStep(Terms, Choices) ==
    /\ pc = "merged"
    /\ \E term \in Terms, m \in Choices,
          s \in SliderOutcomes(merged_df.rows) :
        /\ search_term' = term
        /\ metric' = m
        /\ IF s.raised # ""
           THEN /\ pc' = "crashed"
                /\ messages' = Append(messages,
                       Msg("exception", "Uncaught exception", s.raised))
                /\ UNCHANGED <<min_minutes, filtered_df>>
           ELSE /\ pc' = "filtered"
                /\ min_minutes' = s.value
                /\ filtered_df' =
                       Frame(FilterRows(merged_df.rows, s.value, term))
                /\ messages' = messages
                       \o SearchMessages(
                              FilterRows(merged_df.rows, s.value, term), term)
    /\ UNCHANGED <<raw_draft, draft_df, raw_season, season_df, merged_df,
                   correlation, top_picks, late_picks, nameVars>>

(***************************************************************************)
(* Tab 1, lines 126-220: the correlation and the two tables.               *)
(***************************************************************************)
RECURSIVE Sum(_)
Sum(s) == IF s = <<>> THEN 0 ELSE Head(s) + Sum(Tail(s))

\* filtered_df[['Pk', metric]].corr().iloc[0, 1]: Pearson's coefficient over
\* the rows that have both values, NaN when either variance is zero
Corr(rows, m) ==
    LET obs == SelectSeq(rows, LAMBDA r : r.Pk # NaN /\ MetricOf(r, m) # NaN)
        n == Len(obs)
        x == [i \in 1..n |-> obs[i].Pk[1]]
        y == [i \in 1..n |-> MetricOf(obs[i], m)[1]]
        sx == Sum(x)
        sy == Sum(y)
        cov == n * Sum([i \in 1..n |-> x[i] * y[i]]) - sx * sy
        vx == n * Sum([i \in 1..n |-> x[i] * x[i]]) - sx * sx
        vy == n * Sum([i \in 1..n |-> y[i] * y[i]]) - sy * sy
    IN  IF vx = 0 \/ vy = 0 THEN NaNCorr ELSE CorrValue(cov, vx, vy)

\* line 130: correlation = 0
CorrZero == CorrValue(0, 1, 1)

\* lines 127-130 without the guard on the number of rows
CorrelationUnguarded(rows, m) == Corr(rows, m)

\* lines 127-130
Correlation(rows, m) == IF Len(rows) > 1 THEN Corr(rows, m) ELSE CorrZero

\* a stable ascending sort of <<key, row>> pairs by key
RECURSIVE SortPairs(_)
SortPairs(ps) ==
    IF ps = <<>> THEN <<>>
    ELSE LET front == SortPairs(SubSeq(ps, 1, Len(ps) - 1))
             p == ps[Len(ps)]
             at == Cardinality({i \in 1..Len(front) : front[i][1] <= p[1]})
         IN  SubSeq(front, 1, at) \o <<p>> \o SubSeq(front, at + 1, Len(front))

\* [['Player', 'Pk', metric, 'MP']]
Shown(r, m) ==
    [Player |-> r.Player, Pk |-> r.Pk, Metric |-> MetricOf(r, m), MP |-> r.MP]

\* the bounds of lines 187 and 195
TopPickMax == 5
LatePickMin == 20
LateLimit == 5

\* line 187: filtered_df[Pk <= 5][[...]].sort_values('Pk')
TopPicks(rows, m) ==
    LET top == SelectSeq(rows, LAMBDA r : r.Pk[1] <= TopPickMax * 100)
        sorted == SortPairs([i \in 1..Len(top) |-> <<top[i].Pk[1], top[i]>>])
    IN  [i \in 1..Len(sorted) |-> Shown(sorted[i][2], m)]

\* DataFrame.nlargest(n, metric): the rows in descending order of the metric,
\* equal values in order of appearance, rows without the metric last; the
\* first n of them
NLargest(n, rows, m) ==
    LET have == SelectSeq(rows, LAMBDA r : MetricOf(r, m) # NaN)
        lack == SelectSeq(rows, LAMBDA r : MetricOf(r, m) = NaN)
        sorted == SortPairs([i \in 1..Len(have) |->
                                <<0 - MetricOf(have[i], m)[1], have[i]>>])
        all == [i \in 1..Len(sorted) |-> sorted[i][2]] \o lack
    IN  SubSeq(all, 1, IF Len(all) < n THEN Len(all) ELSE n)

\* line 195: filtered_df[Pk >= 20].nlargest(5, metric)[[...]]
LatePicks(rows, m) ==
    LET late == NLargest(LateLimit,
                    SelectSeq(rows, LAMBDA r : r.Pk[1] >= LatePickMin * 100), m)
    IN  [i \in 1..Len(late) |-> Shown(late[i], m)]

\* lines 188-191, 196-199
TableMessages(top, late) ==
    (IF Len(top) > 0 THEN <<>>
     ELSE <<Msg("info", "Not enough top picks", "empty")>>)
    \o (IF Len(late) > 0 THEN <<>>
        ELSE <<Msg("info", "Not enough late picks", "empty")>>)

AggregateStep ==
    /\ pc = "filtered"
    /\ pc' = "done"
    /\ IF Len(filtered_df.rows) >= 1
       THEN /\ correlation' = Correlation(filtered_df.rows, metric)
            /\ top_picks' = TopPicks(filtered_df.rows, metric)
            /\ late_picks' = LatePicks(filtered_df.rows, metric)
            /\ messages' = messages
                   \o TableMessages(TopPicks(filtered_df.rows, metric),
                                    LatePicks(filtered_df.rows, metric))
       ELSE /\ messages' = Append(messages,
                   Msg("warning", "Not enough players meet the threshold",
                       "empty"))
            /\ UNCHANGED <<correlation, top_picks, late_picks>>
    /\ UNCHANGED <<raw_draft, draft_df, raw_season, season_df, merged_df,
                   search_term, metric, min_minutes, filtered_df, nameVars>>

(***************************************************************************)
(* The inputs: the responses of the two requests, the search terms typed   *)
(* and the metrics selected.                                               *)
(***************************************************************************)
SeqsUpTo(S, n) == UNION { [1..k -> S] : k \in 0..n }

\* texts of cells
T_A == <<"A">>
T_A_II == <<"A", " ", "I", "I">>
T_A_Jr == <<"A", " ", "J", "r", ".">>
T_B == <<"B">>
T_BOS == <<"B", "O", "S">>
T_1 == <<"1">>
T_3 == <<"3">>
T_25 == <<"2", "5">>
T_Pk == <<"P", "k">>
T_x == <<"x">>
T_20_0 == <<"2", "0", ".", "0">>
T_10_0 == <<"1", "0", ".", "0">>
T_5_0 == <<"5", ".", "0">>
T_8_0 == <<"8", ".", "0">>
T_2_0 == <<"2", ".", "0">>
T_1_0 == <<"1", ".", "0">>
T_0_5 == <<"0", ".", "5">>
T_0_4 == <<"0", ".", "4">>

\* a draft table: its header, and for each column the field (1 pick, 2 player,
\* 3 team) its cells hold
DraftLayouts ==
    { [cols |-> <<"Pk", "Player", "Tm">>, holds |-> <<1, 2, 3>>],
      [cols |-> <<"Tm", "Player", "Pk">>, holds |-> <<3, 2, 1>>],
      [cols |-> <<"Rk", "Name", "Team">>, holds |-> <<1, 2, 3>>],
      [cols |-> <<"Pk", "Player">>, holds |-> <<1, 2>>],
      [cols |-> <<"Rk", "Name">>, holds |-> <<1, 2>>] }

DraftTable(layout, fields) ==
    Table(layout.cols,
          [i \in 1..Len(fields) |->
              [j \in 1..Len(layout.cols) |-> fields[i][layout.holds[j]]]])

\* every shape of draft response: a failed request, no table in the page,
\* any layout, rows with missing and unparsable cells
DraftResponsesAll(most) ==
    {FailedTable("FetchError"), FailedTable("ValueError")}
    \cup { DraftTable(l, f) :
             l \in DraftLayouts,
             f \in SeqsUpTo({NaN, T_1, T_25, T_Pk} \X {T_A, T_A_Jr, NaN}
                            \X {T_BOS, NaN}, most) }

\* the draft responses of a whole run: a failed request, or a well-formed table
\* in which no pick is given twice
DraftResponses(most) ==
    {FailedTable("FetchError")}
    \cup { Table(<<"Pk", "Player", "Tm">>, f) :
             f \in { g \in SeqsUpTo({T_1, T_3, T_25} \X {T_A_II, T_B}
                                    \X {T_BOS}, most) :
                        \A i, j \in 1..Len(g) : i # j => g[i][1] # g[j][1] } }

\* a season row in the order of SeasonCols
SeasonRow(p, pts, stl, blk, mp) ==
    <<p, pts, T_0_5, T_0_4, T_8_0, T_5_0, stl, blk, mp>>

Without(cols, c) == SelectSeq(cols, LAMBDA x : x # c)

\* a table without the column c: each row loses that cell
Drop(t, c) ==
    LET keep == {i \in 1..Len(t.cols) : t.cols[i] # c}
        pos(k) == CHOOSE i \in keep : Cardinality({j \in keep : j < i}) = k - 1
    IN  Table(Without(t.cols, c),
              [r \in 1..Len(t.rows) |->
                  [k \in 1..Cardinality(keep) |-> t.rows[r][pos(k)]]])

SeasonTablesAll(most) ==
    { Table(SeasonCols, [i \in 1..Len(f) |->
                SeasonRow(f[i][1], f[i][2], f[i][3], f[i][4], T_20_0)]) :
        f \in SeqsUpTo({T_A, NaN} \X {T_20_0, NaN} \X {T_2_0, NaN, T_x}
                       \X {T_1_0, NaN}, most) }

\* every shape of season response
SeasonResponsesAll(most) ==
    {FailedTable("FetchError"), FailedTable("ValueError")}
    \cup SeasonTablesAll(most)
    \cup { Drop(t, "STL") : t \in SeasonTablesAll(most) }
    \cup { Drop(t, "Player") : t \in SeasonTablesAll(most) }

\* the season responses of a whole run
SeasonResponses(most) ==
    {FailedTable("FetchError")}
    \cup { Table(SeasonCols, [i \in 1..Len(f) |->
                    SeasonRow(f[i][1], T_20_0, T_2_0, T_1_0, f[i][2])]) :
             f \in SeqsUpTo({T_A, T_B} \X {T_10_0, T_20_0}, most) }

SearchTerms == { <<>>, <<"B", " ">>, <<"i">> }

MetricChoices == {"Composite Score", "PTS"}

(***************************************************************************)
(* One run of the script.                                                  *)
(***************************************************************************)
Init ==
    /\ pc = "start"
    /\ PipelineUntouched
    /\ NameUntouched

Next ==
    \/ FetchDraft(DraftResponses(MaxDraftRows))
    \/ FetchSeason(SeasonResponses(MaxSeasonRows))
    \/ MergeStep
    \/ FilterStep(SearchTerms, MetricChoices)
    \/ AggregateStep

Spec == Init /\ [][Next]_vars

(***************************************************************************)
(* fetch_draft_data alone, on every shape of response.                     *)
(***************************************************************************)
NextDraft == FetchDraft(DraftResponsesAll(MaxDraftRows))

SpecDraft == Init /\ [][NextDraft]_vars

(***************************************************************************)
(* fetch_season_stats alone, on every shape of response, after a draft     *)
(* request that failed.                                                    *)
(***************************************************************************)
NextSeason ==
    \/ FetchDraft({FailedTable("FetchError")})
    \/ FetchSeason(SeasonResponsesAll(MaxSeasonRows))

SpecSeason == Init /\ [][NextSeason]_vars

(***************************************************************************)
(* The aggregations alone, on filtered frames of up to MaxAggRows players: *)
(* the i-th player holds pick i or pick 20 + i, and has 1.0 or 2.0 steals  *)
(* a game.                                                                 *)
(***************************************************************************)
DigitChars == <<"1", "2", "3", "4", "5", "6", "7", "8", "9">>

AggRow(i, late, stl) ==
    MergedRow(
        [Pk |-> Num(IF late THEN LatePickMin + i ELSE i),
         Player |-> <<"P", DigitChars[i]>>,
         Player_Clean |-> <<"P", DigitChars[i]>>, Tm |-> T_BOS],
        [Player |-> <<"P", DigitChars[i]>>,
         Player_Clean |-> <<"P", DigitChars[i]>>,
         PTS |-> Num(20), FG_pct |-> <<50>>, P3_pct |-> <<40>>,
         TRB |-> Num(8), AST |-> Num(5), STL |-> stl, BLK |-> Num(1),
         MP |-> Num(20),
         Composite_Score |->
             CompositeScore(Num(20), Num(5), Num(8), stl, Num(1))])

AggFrames(most) ==
    { [i \in 1..Len(f) |-> AggRow(i, f[i][1], f[i][2])] :
        f \in SeqsUpTo(BOOLEAN \X {Num(1), Num(2)}, most) }

InitAgg ==
    /\ pc = "filtered"
    /\ \E rows \in AggFrames(MaxAggRows) :
        /\ merged_df = Frame(rows)
        /\ filtered_df = Frame(rows)
    /\ metric = "STL"
    /\ min_minutes = 0
    /\ search_term = <<>>
    /\ raw_draft = NoTable /\ draft_df = NoFrame
    /\ raw_season = NoTable /\ season_df = NoFrame
    /\ messages = <<>>
    /\ correlation = NoCorr
    /\ top_picks = <<>> /\ late_picks = <<>>
    /\ NameUntouched

NextAgg == AggregateStep

SpecAgg == InitAgg /\ [][NextAgg]_vars

(***************************************************************************)
(* The name clean-up on its own: a raw cell is put together from at most   *)
(* MaxPieces pieces, cleaned, and the clean-up is applied to its result.   *)
(***************************************************************************)
Pieces ==
    { <<"A">>, <<" ">>, <<".">>, <<"I">>,
      <<"J", "r", ".">>, <<"S", "r", ".">>, <<"I", "I", "I">>,
      <<"I", "I">>, <<"I", "V">> }

RECURSIVE Concat(_)
Concat(ps) == IF ps = <<>> THEN <<>> ELSE Head(ps) \o Concat(Tail(ps))

RawNames(most) ==
    { Concat(ps) : ps \in UNION { [1..n -> Pieces] : n \in 0..most } }

InitNorm ==
    /\ pc = "raw"
    /\ name \in RawNames(MaxPieces)
    /\ player = <<>> /\ player_clean = <<>> /\ reclean = <<>>
    /\ PipelineUntouched

pipelineVars ==
    <<raw_draft, draft_df, raw_season, season_df, merged_df, messages,
      search_term, metric, min_minutes, filtered_df, correlation,
      top_picks, late_picks>>

\* lines 36-37 / 60-61 on one cell
CleanName ==
    /\ pc = "raw"
    /\ player' = Strip(name)
    /\ player_clean' = PlayerClean(Strip(name))
    /\ pc' = "clean"
    /\ UNCHANGED <<name, reclean, pipelineVars>>

\* the same clean-up with its own result as the raw cell
CleanAgain ==
    /\ pc = "clean"
    /\ reclean' = PlayerClean(Strip(player_clean))
    /\ pc' = "recleaned"
    /\ UNCHANGED <<name, player, player_clean, pipelineVars>>

NextNorm == CleanName \/ CleanAgain

SpecNorm == InitNorm /\ [][NextNorm]_vars

(***************************************************************************)
(* The claims.                                                             *)
(***************************************************************************)
SetOf(s) == {s[i] : i \in 1..Len(s)}

KeysUnique(rows) ==
    \A i, j \in 1..Len(rows) :
        i # j => rows[i].Player_Clean # rows[j].Player_Clean

Merged == merged_df.state = "frame"

\* C1: the join never fans out: whatever the season rows are, the merged frame
\* has at most one row per draft row
C1_NoFanOut == Merged => Len(merged_df.rows) <= Len(draft_df.rows)

\* a draft row without a season row of the same key has no merged row
UnmatchedAbsent ==
    \A i \in 1..Len(draft_df.rows) :
        (\A j \in 1..Len(season_df.rows) :
            season_df.rows[j].Player_Clean # draft_df.rows[i].Player_Clean)
        => \A k \in 1..Len(merged_df.rows) :
               merged_df.rows[k].Player_Clean # draft_df.rows[i].Player_Clean

C3_Idempotent == pc = "recleaned" => reclean = player_clean

OrZero(v) == IF v = NaN THEN 0 ELSE v[1]

\* C4: every season row with points has the score points*1.0 + assists*1.5 +
\* rebounds*1.2 + steals*3.0 + blocks*3.0 rounded to two decimals, a missing
\* assists, rebounds, steals or blocks counting as 0
C4_CompositeScore ==
    season_df.state = "frame" =>
        \A i \in 1..Len(season_df.rows) :
            LET r == season_df.rows[i]
            IN  r.PTS # NaN =>
                    r.Composite_Score =
                        <<Round2(r.PTS[1] * 100 + OrZero(r.AST) * 150
                                 + OrZero(r.TRB) * 120 + OrZero(r.STL) * 300
                                 + OrZero(r.BLK) * 300)>>

Shown_FetchError(text) ==
    \E i \in 1..Len(messages) :
        messages[i].text = text /\ messages[i].cause = "FetchError"

\* C5: once a request has failed nothing more is processed: after a failed
\* draft request the season table is neither fetched nor normalized, and after
\* either failure there is no merge, filter or aggregation
C5_FetchErrorIsFatal ==
    /\ Shown_FetchError("Error fetching draft data") =>
           /\ raw_season.state = "unset"
           /\ season_df.state = "unset"
    /\ (Shown_FetchError("Error fetching draft data")
        \/ Shown_FetchError("Error fetching season stats")) =>
           /\ merged_df.state = "unset"
           /\ filtered_df.state = "unset"
           /\ correlation.state = "unset"

Filtered == filtered_df.state = "frame"

JustFiltered == pc = "filtered"

\* the slider's values
SliderValues ==
    {s.value : s \in {t \in SliderOutcomes(merged_df.rows) : t.raised = ""}}

\* the filter is monotone in min_minutes: a lower threshold keeps at least the
\* rows kept, a higher one at most those
FilterMonotone ==
    \A a \in SliderValues :
        LET other == SetOf(FilterRows(merged_df.rows, a, search_term))
        IN  /\ a <= min_minutes => SetOf(filtered_df.rows) \subseteq other
            /\ a >= min_minutes => other \subseteq SetOf(filtered_df.rows)

\* C6 as stated: the filtered frame holds exactly the merged rows with
\* MP >= min_minutes whose player name, when a term was typed, contains the
\* term as typed, case-insensitively; and the filter is monotone in min_minutes
C6_FilterExact ==
    JustFiltered =>
        /\ filtered_df.rows =
               SelectSeq(merged_df.rows, LAMBDA r :
                   /\ r.MP # NaN /\ r.MP[1] >= min_minutes * 100
                   /\ (search_term # <<>> =>
                           Contains(Lower(r.Player), Lower(search_term))))
        /\ FilterMonotone

\* C6 amended: the same with the term trimmed of leading and trailing
\* whitespace before it is looked for
C6_FilterExactTrimmed ==
    JustFiltered =>
        /\ filtered_df.rows =
               SelectSeq(merged_df.rows, LAMBDA r :
                   /\ r.MP # NaN /\ r.MP[1] >= min_minutes * 100
                   /\ (search_term # <<>> =>
                           Contains(Lower(r.Player),
                                    Strip(Lower(search_term)))))
        /\ FilterMonotone

\* a search that keeps one player and drops another, with a kept player exactly
\* at the minutes threshold
C6_Witness ==
    /\ JustFiltered
    /\ search_term # <<>>
    /\ 0 < Len(filtered_df.rows)
    /\ Len(filtered_df.rows) < Len(MinutesFilter(merged_df.rows, min_minutes))
    /\ \E i \in 1..Len(filtered_df.rows) :
           filtered_df.rows[i].MP[1] = min_minutes * 100

\* C7: the draft normalizer fails exactly when the table has no rows or none
\* of its three columns can be found; rows that are malformed are dropped and
\* never make it fail
C7_ParseErrorCases ==
    (pc = "draft_fetched" /\ raw_draft.state = "table") =>
        (draft_df.state = "None"
         <=> \/ Len(raw_draft.rows) = 0
             \/ /\ ColPos(raw_draft.cols, "Pk", 1) = 0
                /\ ColPos(raw_draft.cols, "Player", 2) = 0
                /\ ColPos(raw_draft.cols, "Tm", 3) = 0)

\* C8: a run whose two tables were read and whose join or filter is empty
\* shows no error
C8_EmptyIsNotAnError ==
    (/\ pc = "done"
     /\ draft_df.state = "frame" /\ season_df.state = "frame"
     /\ \/ Len(merged_df.rows) = 0
        \/ Filtered /\ Len(filtered_df.rows) = 0)
    => \A i \in 1..Len(messages) : messages[i].kind # "error"

Swap(s, i, j) ==
    [k \in 1..Len(s) |-> IF k = i THEN s[j] ELSE IF k = j THEN s[i] ELSE s[k]]

\* C9: the two tables do not depend on the order of the filtered rows: with
\* any two rows exchanged, top_picks is the same and late_picks holds the same
\* records
C9_OrderIndependent ==
    (pc = "done" /\ Len(filtered_df.rows) >= 1) =>
        \A i, j \in 1..Len(filtered_df.rows) :
            /\ TopPicks(Swap(filtered_df.rows, i, j), metric) = top_picks
            /\ SetOf(LatePicks(Swap(filtered_df.rows, i, j), metric))
                   = SetOf(late_picks)

\* C10 as stated: with fewer than two filtered rows the correlation is 0
C10_CorrelationDegenerate ==
    (pc = "done" /\ Filtered /\ Len(filtered_df.rows) < 2)
    => correlation = CorrZero

\* C10 amended: with exactly one filtered row the correlation is 0; with none
\* no correlation is computed and a warning is shown instead; neither case
\* raises
C10_CorrelationOneOrNone ==
    (pc = "done" /\ Filtered) =>
        /\ Len(filtered_df.rows) = 1 => correlation = CorrZero
        /\ Len(filtered_df.rows) = 0 =>
               /\ correlation = NoCorr
               /\ messages[Len(messages)].kind = "warning"

\* a run that ends with exactly one filtered row
C10_Witness ==
    /\ pc = "done" /\ Filtered
    /\ Len(filtered_df.rows) = 1
    /\ correlation = CorrZero

====
